---- MODULE Spec2Model ----
(***************************************************************************)
(* RouteMiddleware (src/src/lib.rs): the adapter between a                 *)
(* SwitchRouteService (the Router) and a reactive_state Store.             *)
(*                                                                         *)
(* The program is single threaded, but on_reduce calls out of the          *)
(* middleware twice: into the Router (router.set_route / router.back,      *)
(* which may invoke the registered callback synchronously) and into the    *)
(* next stage (reduce).  Both callees may re-enter on_reduce before they   *)
(* return, so a call of on_reduce is a frame on a call stack with a        *)
(* position: "router" (inside the Router, RefCell borrowed) or "next"      *)
(* (inside reduce).  One step of the model runs the code between two such  *)
(* call-outs.                                                              *)
(***************************************************************************)
EXTENDS Naturals, Sequences, FiniteSets, TLC

VARIABLES
    phase,       \* "unbuilt" | "alive" | "dropped": life of the RouteMiddleware
    route,       \* the Router's current route
    history,     \* the Router's navigation history (older routes, oldest first)
    registered,  \* the Router holds a live registration of the callback
    borrowed,    \* the RefCell<RS> borrow flag (route_service is mutably borrowed)
    stack,       \* the on_reduce calls in progress, innermost last
    ev,          \* what the last step did (observation only, never read by the code)
    nav,         \* the route last navigated to: by a ChangeRoute(r) handled, a Back
                 \* that popped, or the user (observation only)
    failed       \* some try_borrow_mut has failed so far (observation only)

vars == <<phase, route, history, registered, borrowed, stack, ev, nav, failed>>

----------------------------------------------------------------------------
(* Bounds *)

NRoutes == 2      \* number of distinct Route values
MaxHistory == 2   \* length of the Router's history
MaxDepth == 3     \* nesting depth of on_reduce calls

Routes == 1..NRoutes
\* ReduceMiddlewareResult: two values the next stage can return
Results == {"res_a", "res_b"}

----------------------------------------------------------------------------
(* Actions of the application: Option<&Action>.  The application's Action  *)
(* type embeds RouteAction (From<RouteAction>) and has actions of its own. *)

Back == [tag |-> "Back", route |-> 0]
ChangeRoute(r) == [tag |-> "ChangeRoute", route |-> r]
BrowserChangeRoute(r) == [tag |-> "BrowserChangeRoute", route |-> r]
PollBrowserRoute == [tag |-> "PollBrowserRoute", route |-> 0]
\* an action of the application that is no route action, with a payload
AppAction(k) == [tag |-> "App", route |-> k]
\* Option::None
NoAction == [tag |-> "None", route |-> 0]

RouteActions ==
    {Back, PollBrowserRoute}
        \cup {ChangeRoute(r) : r \in Routes}
        \cup {BrowserChangeRoute(r) : r \in Routes}

Actions == RouteActions \cup {AppAction(k) : k \in Routes}

OptActions == Actions \cup {NoAction}

\* IsRouteAction::route_action: Some(route action) or None
route_action(a) == IF a \in RouteActions THEN a ELSE NoAction

----------------------------------------------------------------------------
(* The Router (SwitchRouteService) and the RefCell around it *)

\* a bug: the borrow is taken without the check (an unchecked borrow)
borrow_unchecked(flag) == TRUE

\* RefCell::try_borrow_mut is Ok exactly when nothing is borrowed
try_borrow_mut(flag) == ~flag

\* SwitchRouteService::set_route: navigate to r, the old route joins the history
router_set_route(rt, h, r) == [route |-> r, history |-> Append(h, rt), ret |-> 0]

\* SwitchRouteService::back: pop the most recent history entry, if any
router_back(rt, h) ==
    IF h = <<>>
    THEN [route |-> rt, history |-> h, ret |-> 0]
    ELSE [route |-> h[Len(h)], history |-> SubSeq(h, 1, Len(h) - 1), ret |-> h[Len(h)]]

\* SwitchRouteService::get_route
router_get_route(rt) == rt

\* a bug: the callback dispatches the command instead of the notification
callback_dispatches_command(r) == [sent |-> <<ChangeRoute(r)>>, tried |-> FALSE]

\* the closure of RouteMiddleware::new, invoked with route r: the actions it
\* dispatches to the Store, and whether it tries to borrow the Router
callback(r) == [sent |-> <<BrowserChangeRoute(r)>>, tried |-> FALSE]

----------------------------------------------------------------------------
(* RouteMiddleware *)

\* a bug: set_route borrows the Router and does not navigate
set_route_forgets(r) ==
    [ok |-> try_borrow_mut(borrowed), logged |-> ~try_borrow_mut(borrowed),
     router |-> [route |-> route, history |-> history, ret |-> 0]]

\* RouteMiddleware::set_route, up to its call of router.set_route
set_route(r) ==
    IF try_borrow_mut(borrowed)
    THEN [ok |-> TRUE, logged |-> FALSE, router |-> router_set_route(route, history, r)]
    ELSE [ok |-> FALSE, logged |-> TRUE,
          router |-> [route |-> route, history |-> history, ret |-> 0]]

\* a bug: back borrows the Router and does not pop
back_forgets ==
    [ok |-> try_borrow_mut(borrowed), logged |-> ~try_borrow_mut(borrowed),
     router |-> [route |-> route, history |-> history, ret |-> 0]]

\* RouteMiddleware::back, up to its call of router.back
back ==
    IF try_borrow_mut(borrowed)
    THEN [ok |-> TRUE, logged |-> FALSE, router |-> router_back(route, history)]
    ELSE [ok |-> FALSE, logged |-> TRUE,
          router |-> [route |-> route, history |-> history, ret |-> 0]]

\* the frame of an on_reduce call that forwards fwd and touches nothing
\*   act    the incoming action
\*   pc     "router": inside router.set_route / router.back; "next": inside reduce
\*   pre    the borrow flag found at entry
\*   tried  try_borrow_mut was attempted
\*   holds  this call holds the borrow
\*   logged error! was called
\*   cb     the callback fired during this call's router call
\*   fwd    the action given (or to be given) to the next stage
\*   ret    what back() returned (0: None)
\*   n      how many times this call has called reduce
\*   got    what reduce returned to this call ("none": not yet)
Frame(action, fwd) ==
    [act |-> action, pc |-> "next", pre |-> borrowed, tried |-> FALSE, holds |-> FALSE,
     logged |-> FALSE, cb |-> FALSE, fwd |-> fwd, ret |-> 0, n |-> 1, got |-> "none"]

\* a bug: the fall through suppresses the action
Forward_suppresses(action, fwd) ==
    [fr |-> Frame(action, NoAction), route |-> route, history |-> history]

\* on_reduce passes `fwd` to reduce without touching the Router
Forward(action, fwd) ==
    [fr |-> Frame(action, fwd), route |-> route, history |-> history]

\* the RouteAction::Back arm: self.back(), then reduce(store, None)
arm_back(action) ==
    LET b == back IN
    [fr |-> [Frame(action, NoAction) EXCEPT
                !.tried = TRUE, !.holds = b.ok, !.logged = b.logged,
                !.pc = IF b.ok THEN "router" ELSE "next",
                !.n = IF b.ok THEN 0 ELSE 1,
                !.ret = b.router.ret],
     route |-> b.router.route, history |-> b.router.history]

\* a bug: the ChangeRoute arm calls reduce first and navigates afterwards
arm_change_route_reduces_first(action) ==
    LET s == set_route(route_action(action).route) IN
    [fr |-> [Frame(action, action) EXCEPT
                !.tried = TRUE, !.holds = s.ok, !.logged = s.logged,
                !.pc = IF s.ok THEN "router" ELSE "next",
                !.n = 1],
     route |-> s.router.route, history |-> s.router.history]

\* the RouteAction::ChangeRoute arm: self.set_route(route.clone()), then
\* the fall through to reduce(store, action)
arm_change_route(action) ==
    LET s == set_route(route_action(action).route) IN
    [fr |-> [Frame(action, action) EXCEPT
                !.tried = TRUE, !.holds = s.ok, !.logged = s.logged,
                !.pc = IF s.ok THEN "router" ELSE "next",
                !.n = IF s.ok THEN 0 ELSE 1],
     route |-> s.router.route, history |-> s.router.history]

\* a bug: the poll reads the route and forwards the original action
arm_poll_forwards_original(action) ==
    IF try_borrow_mut(borrowed)
    THEN [Forward(action, action) EXCEPT !.fr.tried = TRUE, !.fr.holds = TRUE]
    ELSE [Forward(action, action) EXCEPT !.fr.tried = TRUE, !.fr.logged = TRUE]

\* a bug: the poll drops router_mut before it calls reduce
arm_poll_releases(action) ==
    IF try_borrow_mut(borrowed)
    THEN [Forward(action, BrowserChangeRoute(router_get_route(route))) EXCEPT
            !.fr.tried = TRUE]
    ELSE [Forward(action, action) EXCEPT !.fr.tried = TRUE, !.fr.logged = TRUE]

\* the RouteAction::PollBrowserRoute arm: on Ok, reduce is called with
\* BrowserChangeRoute(get_route()) while router_mut is alive; on Err, the
\* error is logged and on_reduce falls through to reduce(store, action)
arm_poll(action) ==
    IF try_borrow_mut(borrowed)
    THEN [Forward(action, BrowserChangeRoute(router_get_route(route))) EXCEPT
            !.fr.tried = TRUE, !.fr.holds = TRUE]
    ELSE [Forward(action, action) EXCEPT !.fr.tried = TRUE, !.fr.logged = TRUE]

\* a bug: BrowserChangeRoute is handled like ChangeRoute
Intercept_navigates_on_notification(action) ==
    LET ra == route_action(action) IN
    IF action = NoAction \/ ra = NoAction THEN Forward(action, action)
    ELSE IF ra.tag = "Back" THEN arm_back(action)
    ELSE IF ra.tag \in {"ChangeRoute", "BrowserChangeRoute"} THEN arm_change_route(action)
    ELSE IF ra.tag = "PollBrowserRoute" THEN arm_poll(action)
    ELSE Forward(action, action)

\* a bug: the middleware remembers the action it handled last and skips the
\* Router when the same ChangeRoute comes again
Intercept_remembers(action) ==
    LET ra == route_action(action) IN
    IF action = NoAction \/ ra = NoAction THEN Forward(action, action)
    ELSE IF ra.tag = "Back" THEN arm_back(action)
    ELSE IF ra.tag = "ChangeRoute" THEN
        IF ev.fr.act = action THEN Forward(action, action) ELSE arm_change_route(action)
    ELSE IF ra.tag = "PollBrowserRoute" THEN arm_poll(action)
    ELSE Forward(action, action)

\* a bug: an action suppressed upstream makes the middleware poll the Router
Intercept_polls_on_none(action) ==
    LET ra == route_action(action) IN
    IF action = NoAction THEN arm_poll(action)
    ELSE IF ra = NoAction THEN Forward(action, action)
    ELSE IF ra.tag = "Back" THEN arm_back(action)
    ELSE IF ra.tag = "ChangeRoute" THEN arm_change_route(action)
    ELSE IF ra.tag = "PollBrowserRoute" THEN arm_poll(action)
    ELSE Forward(action, action)

\* on_reduce from its entry to its first call out of the middleware: the
\* frame of the call and the Router state it leaves
Intercept(action) ==
    LET ra == route_action(action) IN
    IF action = NoAction \/ ra = NoAction THEN Forward(action, action)
    ELSE IF ra.tag = "Back" THEN arm_back(action)
    ELSE IF ra.tag = "ChangeRoute" THEN arm_change_route(action)
    ELSE IF ra.tag = "PollBrowserRoute" THEN arm_poll(action)
    ELSE Forward(action, action)

NoFrame == [Frame(NoAction, NoAction) EXCEPT !.pc = "none", !.pre = FALSE, !.n = 0]

\* what a step did: its kind, the on_reduce frame it concerns, the route the
\* callback was invoked with (0: not invoked), the actions dispatched to the
\* Store, the result on_reduce returned ("none": no return), and the argument
\* RouteStore::change_route was called with (0: not called)
Event(kind, fr, arg, sent, out) ==
    [kind |-> kind, fr |-> fr, arg |-> arg, sent |-> sent, out |-> out, inp |-> 0]

Top == stack[Len(stack)]

\* what a call in progress still holds of its frame: once reduce is called,
\* on_reduce reads none of its locals again, it only drops the RefMut (if it
\* holds one) when reduce returns
Live(fr) ==
    IF fr.pc = "next"
    THEN [NoFrame EXCEPT !.pc = "next", !.holds = fr.holds, !.n = fr.n]
    ELSE fr

\* control is outside the middleware in code that can call on_reduce: the
\* application (no call in progress), the next stage, or the Store
\* dispatching synchronously from the callback the Router just invoked
CanEnter ==
    \/ stack = <<>>
    \/ stack # <<>> /\ Top.pc = "next"
    \/ stack # <<>> /\ Top.pc = "router" /\ Top.cb

----------------------------------------------------------------------------
(* Steps *)

Init ==
    /\ phase = "unbuilt"
    /\ route \in Routes
    /\ history = <<>>
    /\ registered = FALSE
    /\ borrowed = FALSE
    /\ stack = <<>>
    /\ ev = Event("init", NoFrame, 0, <<>>, "none")
    /\ nav = route
    /\ failed = FALSE

\* a bug: new holds a borrow of the RefCell when it tries to register
new_registers_while_borrowed ==
    /\ phase = "unbuilt"
    /\ LET cell == TRUE IN
         /\ registered' = try_borrow_mut(cell)
         /\ borrowed' = FALSE
         /\ ev' = Event("new", [NoFrame EXCEPT !.tried = TRUE,
                                               !.logged = ~try_borrow_mut(cell)],
                        0, <<>>, "none")
         /\ failed' = (failed \/ ~try_borrow_mut(cell))
    /\ phase' = "alive"
    /\ UNCHANGED <<route, history, stack, nav>>

\* RouteMiddleware::new: a fresh RefCell, the callback, its registration
new ==
    /\ phase = "unbuilt"
    /\ LET cell == FALSE IN
         /\ registered' = try_borrow_mut(cell)
         /\ borrowed' = cell
         /\ ev' = Event("new", [NoFrame EXCEPT !.tried = TRUE,
                                               !.logged = ~try_borrow_mut(cell)],
                        0, <<>>, "none")
         /\ failed' = (failed \/ ~try_borrow_mut(cell))
    /\ phase' = "alive"
    /\ UNCHANGED <<route, history, stack, nav>>

\* Middleware::on_reduce is called with `action`; runs to its first call-out
on_reduce(action) ==
    /\ phase = "alive"
    /\ Len(stack) < MaxDepth
    /\ CanEnter
    /\ LET to == Intercept(action) IN
         /\ Len(to.history) <= MaxHistory
         /\ route' = to.route
         /\ history' = to.history
         /\ borrowed' = (borrowed \/ to.fr.holds)
         /\ stack' = Append(stack, Live(to.fr))
         /\ ev' = Event(IF to.fr.pc = "next" THEN "call_next" ELSE "call_router",
                        to.fr, 0, <<>>, "none")
         /\ failed' = (failed \/ to.fr.logged)
    /\ nav' = IF action.tag = "ChangeRoute" THEN action.route
              ELSE IF action = Back /\ ~borrowed /\ history # <<>>
                   THEN history[Len(history)]
                   ELSE nav
    /\ UNCHANGED <<phase, registered>>

\* the Router invokes the registered callback with its current route:
\* synchronously inside router.set_route / router.back, or later from the
\* event loop
router_notify ==
    /\ registered
    /\ \/ stack = <<>> /\ stack' = stack
       \/ /\ stack # <<>>
          /\ Top.pc = "router"
          /\ stack' = [stack EXCEPT ![Len(stack)].cb = TRUE]
    /\ ev' = Event("notify", [NoFrame EXCEPT !.tried = callback(route).tried],
                   route, callback(route).sent, "none")
    /\ UNCHANGED <<phase, route, history, registered, borrowed, nav, failed>>

\* router.set_route / router.back returns: the RefMut is dropped and
\* on_reduce calls reduce
router_return ==
    /\ stack # <<>>
    /\ Top.pc = "router"
    /\ LET fr == [Top EXCEPT !.pc = "next", !.holds = FALSE, !.n = @ + 1] IN
         /\ stack' = [stack EXCEPT ![Len(stack)] = Live(fr)]
         /\ ev' = Event("call_next", fr, 0, <<>>, "none")
    /\ borrowed' = FALSE
    /\ UNCHANGED <<phase, route, history, registered, nav, failed>>

\* a bug: on_reduce drops the result of reduce and returns a default
pass_result_default(res) == "res_a"

\* the value of on_reduce: `return reduce(..)` and the tail `reduce(store, action)`
pass_result(res) == res

\* reduce returns `res`: on_reduce returns it, dropping the RefMut it holds
reduce_return(res) ==
    /\ stack # <<>>
    /\ Top.pc = "next"
    /\ borrowed' = IF Top.holds THEN FALSE ELSE borrowed
    /\ stack' = SubSeq(stack, 1, Len(stack) - 1)
    /\ ev' = Event("return", [Top EXCEPT !.got = res], 0, <<>>, pass_result(res))
    /\ UNCHANGED <<phase, route, history, registered, nav, failed>>

\* a bug: dropping the middleware leaves the listener with the route service
drop_leaks ==
    /\ phase = "alive"
    /\ stack = <<>>
    /\ phase' = "dropped"
    /\ ev' = Event("drop", NoFrame, 0, <<>>, "none")
    /\ UNCHANGED <<route, history, registered, borrowed, stack, nav, failed>>

\* the RouteMiddleware is dropped: _callback is dropped with it, which
\* removes the listener from the route service
drop ==
    /\ phase = "alive"
    /\ stack = <<>>
    /\ phase' = "dropped"
    /\ registered' = FALSE
    /\ ev' = Event("drop", NoFrame, 0, <<>>, "none")
    /\ UNCHANGED <<route, history, borrowed, stack, nav, failed>>

\* the user navigates (a link, the address bar): the Router changes its
\* route and notifies its listeners
external_navigate(r) ==
    /\ stack = <<>>
    /\ Len(history) < MaxHistory
    /\ LET to == router_set_route(route, history, r) IN
         /\ route' = to.route
         /\ history' = to.history
    /\ ev' = IF registered
             THEN Event("navigate", [NoFrame EXCEPT !.tried = callback(r).tried],
                        r, callback(r).sent, "none")
             ELSE Event("navigate", NoFrame, 0, <<>>, "none")
    /\ nav' = r
    /\ UNCHANGED <<phase, registered, borrowed, stack, failed>>

\* what RouteStore::change_route accepts: a Route, or a value of another
\* type that converts into one
RouteInputs == 1..(NRoutes + NRoutes)

\* Into<SR>::into: a Route is itself, another value is the Route it denotes
into(x) == IF x \in Routes THEN x ELSE x - NRoutes

\* a bug: change_route also navigates the Router itself
change_route_navigates(x) ==
    /\ phase = "alive"
    /\ CanEnter
    /\ Len(history) < MaxHistory
    /\ ev' = [Event("dispatch", NoFrame, 0, <<ChangeRoute(into(x))>>, "none")
                EXCEPT !.inp = x]
    /\ route' = into(x)
    /\ history' = Append(history, route)
    /\ UNCHANGED <<phase, registered, borrowed, stack, nav, failed>>

\* RouteStore::change_route on the Store: self.dispatch(ChangeRoute(route.into())).
\* The Store runs the action through on_reduce afterwards.
change_route(x) ==
    /\ phase = "alive"
    /\ CanEnter
    /\ ev' = [Event("dispatch", NoFrame, 0, <<ChangeRoute(into(x))>>, "none")
                EXCEPT !.inp = x]
    /\ UNCHANGED <<phase, route, history, registered, borrowed, stack, nav, failed>>

Next ==
    \/ new
    \/ \E a \in OptActions : on_reduce(a)
    \/ router_notify
    \/ router_return
    \/ \E res \in Results : reduce_return(res)
    \/ drop
    \/ \E r \in Routes : external_navigate(r)
    \/ \E x \in RouteInputs : change_route(x)

Spec == Init /\ [][Next]_vars

----------------------------------------------------------------------------
(* Well-formedness of the model *)

TypeOK ==
    /\ phase \in {"unbuilt", "alive", "dropped"}
    /\ route \in Routes
    /\ history \in Seq(Routes) /\ Len(history) <= MaxHistory
    /\ registered \in BOOLEAN
    /\ borrowed \in BOOLEAN
    /\ Len(stack) <= MaxDepth
    /\ borrowed <=> \E i \in 1..Len(stack) : stack[i].holds

----------------------------------------------------------------------------
(* Properties *)

\* this step is the entry of on_reduce with action a
Entered(a) == Len(stack') = Len(stack) + 1 /\ ev'.fr.act = a

\* the last step called the next stage, for an on_reduce call with action a
CalledNext(a) == ev.kind = "call_next" /\ ev.fr.act = a

Front(h) == SubSeq(h, 1, Len(h) - 1)

\* C1 as stated: for every Route r, on_reduce with ChangeRoute(r) leaves the
\* Router's current route at r and gives the next stage ChangeRoute(r)
\* unchanged.  Read when the next stage is invoked, the point after which
\* this call touches the Router no more.
C1_Original ==
    \A r \in Routes :
        CalledNext(ChangeRoute(r)) => route = r /\ ev.fr.fwd = ChangeRoute(r)

\* C1 (amended): on_reduce with ChangeRoute(r) gives the next stage
\* ChangeRoute(r) unchanged in every case, and when the Router was not
\* borrowed at the entry of on_reduce, the Router's current route is r at
\* the time the next stage is invoked.
C1_ChangeRoute ==
    \A r \in Routes :
        CalledNext(ChangeRoute(r)) =>
            /\ ev.fr.fwd = ChangeRoute(r)
            /\ ~ev.fr.pre => route = r

C1_Witness ==
    /\ ev.kind = "call_next"
    /\ ev.fr.act.tag = "ChangeRoute"
    /\ ~ev.fr.pre
    /\ ev.fr.fwd = ev.fr.act
    /\ route = ev.fr.act.route
    /\ history # <<>>
    /\ history[Len(history)] # route

\* C2 as stated: on_reduce with PollBrowserRoute while the Router's route is
\* r gives the next stage BrowserChangeRoute(r), never PollBrowserRoute.
C2_Original ==
    CalledNext(PollBrowserRoute) =>
        ev.fr.fwd = BrowserChangeRoute(route) /\ ev.fr.fwd # PollBrowserRoute

\* C2 (amended): when the Router is not borrowed at the entry of on_reduce,
\* on_reduce with PollBrowserRoute while the Router's route is r gives the
\* next stage BrowserChangeRoute(r) and not PollBrowserRoute, and leaves
\* the Router's route and history as they were.
C2_Poll ==
    [][ Entered(PollBrowserRoute) /\ ~borrowed =>
            /\ ev'.kind = "call_next"
            /\ ev'.fr.fwd = BrowserChangeRoute(route)
            /\ ev'.fr.fwd # PollBrowserRoute
            /\ UNCHANGED <<route, history>> ]_vars

C2_Witness ==
    /\ CalledNext(PollBrowserRoute)
    /\ ~ev.fr.pre
    /\ ev.fr.fwd = BrowserChangeRoute(route)
    /\ history # <<>>

\* C3 as stated: on_reduce with Back pops the Router's most recent history
\* entry when one exists, and the next stage is invoked with None.
C3_Original ==
    [][ /\ Entered(Back) /\ history # <<>> => history' = Front(history)
        /\ ev'.kind = "call_next" /\ ev'.fr.act = Back => ev'.fr.fwd = NoAction ]_vars

\* C3 (amended): on_reduce with Back invokes the next stage with None in
\* every case, and when the Router is not borrowed at the entry of
\* on_reduce it pops the Router's most recent history entry if one exists
\* (the Router's route becomes that entry) and leaves an empty history
\* empty.
C3_Back ==
    [][ /\ Entered(Back) /\ ~borrowed /\ history # <<>> =>
              /\ history' = Front(history)
              /\ route' = history[Len(history)]
              /\ ev'.fr.ret = history[Len(history)]
        /\ Entered(Back) /\ ~borrowed /\ history = <<>> =>
              /\ UNCHANGED <<route, history>>
              /\ ev'.fr.ret = 0
        /\ ev'.kind = "call_next" /\ ev'.fr.act = Back => ev'.fr.fwd = NoAction ]_vars

C3_Witness ==
    /\ CalledNext(Back)
    /\ ~ev.fr.pre
    /\ ev.fr.ret # 0
    /\ ev.fr.ret = route
    /\ ev.fr.fwd = NoAction

\* C4: when the Router is already borrowed, on_reduce with ChangeRoute, Back
\* or PollBrowserRoute goes on to the next stage in the same step (no
\* panic, no wait), logs an error, takes no borrow, leaves the Router's
\* route, history and registration unchanged, and forwards ChangeRoute
\* unchanged, None for Back (back returns None), PollBrowserRoute unchanged.
C4_Reentrant ==
    [][ \A a \in RouteActions :
          Entered(a) /\ borrowed /\ a.tag # "BrowserChangeRoute" =>
            /\ ev'.kind = "call_next"
            /\ ev'.fr.tried /\ ev'.fr.logged /\ ~ev'.fr.holds
            /\ ev'.fr.ret = 0
            /\ ev'.fr.fwd = IF a = Back THEN NoAction ELSE a
            /\ UNCHANGED <<route, history, registered, borrowed>> ]_vars

C4_Witness ==
    /\ ev.kind = "call_next"
    /\ ev.fr.act.tag = "ChangeRoute"
    /\ ev.fr.pre /\ ev.fr.logged
    /\ ev.fr.act.route # route
    /\ ev.fr.fwd = ev.fr.act

\* C5: every invocation of the callback with route r dispatches exactly one
\* action to the Store, BrowserChangeRoute(r), and makes no attempt to
\* borrow the Router.
C5_Callback ==
    ev.arg # 0 => ev.sent = <<BrowserChangeRoute(ev.arg)>> /\ ~ev.fr.tried

C5_Witness ==
    /\ ev.kind = "notify"
    /\ stack # <<>>
    /\ ev.arg = route
    /\ Len(ev.sent) = 1

\* C6: once the middleware is dropped its callback is not registered, is
\* never invoked, and no step dispatches an action to the Store.
C6_Teardown ==
    phase = "dropped" => ~registered /\ ev.arg = 0 /\ ev.sent = <<>>

C6_Witness == phase = "dropped" /\ ev.kind = "navigate"

\* C7: on_reduce with an action that is no route action invokes the next
\* stage with that action unchanged, makes no attempt to borrow the Router
\* and leaves the Router's route and history unchanged.
C7_Passthrough ==
    [][ \A k \in Routes :
          Entered(AppAction(k)) =>
            /\ ev'.kind = "call_next"
            /\ ev'.fr.fwd = AppAction(k)
            /\ ~ev'.fr.tried /\ ~ev'.fr.logged /\ ~ev'.fr.holds
            /\ UNCHANGED <<route, history, borrowed>> ]_vars

C7_Witness ==
    /\ ev.kind = "call_next"
    /\ ev.fr.act.tag = "App"
    /\ ev.fr.fwd = ev.fr.act
    /\ ~ev.fr.tried

\* C8: on_reduce with BrowserChangeRoute(r) takes no borrow, leaves the
\* Router's route and history unchanged and invokes the next stage with
\* BrowserChangeRoute(r) unchanged, whether or not the Router is borrowed.
C8_Notification ==
    [][ \A r \in Routes :
          Entered(BrowserChangeRoute(r)) =>
            /\ ev'.kind = "call_next"
            /\ ev'.fr.fwd = BrowserChangeRoute(r)
            /\ ~ev'.fr.tried /\ ~ev'.fr.logged /\ ~ev'.fr.holds
            /\ UNCHANGED <<route, history, borrowed>> ]_vars

C8_Witness ==
    /\ ev.kind = "call_next"
    /\ ev.fr.act.tag = "BrowserChangeRoute"
    /\ ev.fr.pre
    /\ ev.fr.fwd = ev.fr.act
    /\ ev.fr.act.route # route

\* the interception table: what on_reduce forwards and how it leaves the
\* Router, from the incoming action, the Router's state and the borrow flag
Table(a, rt, h, b) ==
    IF a.tag = "ChangeRoute" THEN
        [fwd |-> a, route |-> IF b THEN rt ELSE a.route,
         history |-> IF b THEN h ELSE Append(h, rt), borrowed |-> TRUE]
    ELSE IF a.tag = "Back" THEN
        [fwd |-> NoAction, route |-> IF b \/ h = <<>> THEN rt ELSE h[Len(h)],
         history |-> IF b \/ h = <<>> THEN h ELSE Front(h), borrowed |-> TRUE]
    ELSE IF a.tag = "PollBrowserRoute" THEN
        [fwd |-> IF b THEN a ELSE BrowserChangeRoute(rt), route |-> rt,
         history |-> h, borrowed |-> TRUE]
    ELSE [fwd |-> a, route |-> rt, history |-> h, borrowed |-> b]

\* C10: what on_reduce forwards to the next stage and what it does to the
\* Router is a function of the incoming action, the Router's state and the
\* borrow flag alone: whatever calls came before, and whatever calls are
\* in progress, the same inputs give the same outcome.
C10_Memoryless ==
    [][ \A a \in OptActions :
          Entered(a) =>
            /\ ev'.fr.fwd = Table(a, route, history, borrowed).fwd
            /\ route' = Table(a, route, history, borrowed).route
            /\ history' = Table(a, route, history, borrowed).history
            /\ borrowed' = Table(a, route, history, borrowed).borrowed
            /\ registered' = registered ]_vars

\* the same ChangeRoute is handled twice in a row, the second time nested
\* in the first one's next stage, and navigates again
C10_Witness ==
    /\ Len(stack) = 2
    /\ ev.kind = "call_router"
    /\ ev.fr.act.tag = "ChangeRoute"
    /\ history # <<>>
    /\ history[Len(history)] = route
    /\ route = ev.fr.act.route

\* C11: on_reduce with no action (None) invokes the next stage with None,
\* makes no attempt to borrow the Router and leaves the Router's route,
\* history, registration and borrow flag unchanged.
C11_NoAction ==
    [][ Entered(NoAction) =>
          /\ ev'.kind = "call_next"
          /\ ev'.fr.fwd = NoAction
          /\ ~ev'.fr.tried /\ ~ev'.fr.logged /\ ~ev'.fr.holds
          /\ UNCHANGED <<route, history, registered, borrowed>> ]_vars

C11_Witness ==
    /\ CalledNext(NoAction)
    /\ ev.fr.fwd = NoAction
    /\ ~ev.fr.tried
    /\ ev.fr.n = 1

\* C12: as long as no try_borrow_mut has failed, on_reduce with
\* PollBrowserRoute gives the next stage BrowserChangeRoute(r), r being the
\* route last navigated to: the r of the most recent ChangeRoute(r), the
\* entry the most recent popping Back restored, or the user's most recent
\* navigation, whichever came last.
C12_PollAfterNavigation ==
    CalledNext(PollBrowserRoute) /\ ~failed => ev.fr.fwd = BrowserChangeRoute(nav)

\* a PollBrowserRoute nested in the next stage of a ChangeRoute(r): the
\* next stage got ChangeRoute(r) and now gets BrowserChangeRoute(r)
C12_Witness ==
    /\ CalledNext(PollBrowserRoute)
    /\ ~failed
    /\ Len(stack) = 2
    /\ history # <<>>
    /\ history[Len(history)] # nav
    /\ ev.fr.fwd = BrowserChangeRoute(nav)

\* C13: every on_reduce call that returns has called the next stage exactly
\* once and returns the result the next stage gave it; no call calls the
\* next stage a second time.
C13_NextOnce ==
    /\ ev.kind = "return" => ev.fr.n = 1 /\ ev.out = ev.fr.got /\ ev.out \in Results
    /\ ev.kind = "call_next" => ev.fr.n = 1
    /\ \A i \in 1..Len(stack) : stack[i].n = IF stack[i].pc = "next" THEN 1 ELSE 0

C13_Witness ==
    /\ ev.kind = "return"
    /\ ev.out = "res_b"
    /\ ev.fr.got = "res_b"
    /\ stack # <<>>

\* C14: when on_reduce calls the next stage, the call itself holds the
\* borrow exactly when it is a PollBrowserRoute that found the Router free
\* (never for Back, ChangeRoute, BrowserChangeRoute, other actions, None);
\* such a call keeps the borrow for as long as it is in the next stage, and
\* a ChangeRoute, Back or PollBrowserRoute entered meanwhile fails to borrow:
\* it logs, changes nothing in the Router and goes on to the next stage.
C14_PollHoldsGuard ==
    [][ /\ ev'.kind = "call_next" =>
              (ev'.fr.holds <=> ev'.fr.act = PollBrowserRoute /\ ~ev'.fr.pre)
        /\ \A i \in 1..Len(stack') :
              stack'[i].pc = "next" /\ stack'[i].holds => borrowed'
        /\ \A i \in 1..Len(stack) :
              i <= Len(stack') /\ stack[i].pc = "next" /\ stack[i].holds
                  => stack'[i].holds
        /\ \A a \in {Back, PollBrowserRoute} \cup {ChangeRoute(r) : r \in Routes} :
              Entered(a) /\ (\E i \in 1..Len(stack) :
                                stack[i].pc = "next" /\ stack[i].holds) =>
                /\ ev'.kind = "call_next"
                /\ ev'.fr.tried /\ ev'.fr.logged /\ ~ev'.fr.holds
                /\ UNCHANGED <<route, history, borrowed>> ]_vars

\* a Back entered from the next stage of a successful poll: nothing is popped
C14_Witness ==
    /\ Len(stack) >= 2
    /\ stack[Len(stack) - 1].pc = "next"
    /\ stack[Len(stack) - 1].holds
    /\ CalledNext(Back)
    /\ ev.fr.logged
    /\ history # <<>>

\* C15: RouteMiddleware::new tries to borrow a RefCell it has just made, so
\* the try succeeds: no error is logged, the callback is registered, and a
\* live middleware whose callback is not registered does not exist.
C15_AlwaysRegistered ==
    /\ phase = "alive" => registered
    /\ ev.kind = "new" => ev.fr.tried /\ ~ev.fr.logged /\ registered /\ ~borrowed

C15_Witness == ev.kind = "new" /\ phase = "alive" /\ registered /\ ~ev.fr.logged

\* C16: when the Router invokes the callback from inside router.set_route
\* (the RefCell is borrowed), the callback dispatches exactly one
\* BrowserChangeRoute of the Router's route and tries no borrow; on_reduce of
\* a BrowserChangeRoute entered from there tries no borrow and logs nothing;
\* no borrow fails on the way, and when the router call returns the route is
\* the one set_route asked for.
C16_ReentrantCallback ==
    [][ /\ ev'.kind = "notify" /\ stack # <<>> =>
              /\ Top.pc = "router" /\ borrowed
              /\ ev'.arg = route
              /\ ev'.sent = <<BrowserChangeRoute(route)>>
              /\ ~ev'.fr.tried
              /\ UNCHANGED <<route, history, borrowed, failed>>
        /\ \A r \in Routes :
              Entered(BrowserChangeRoute(r)) /\ stack # <<>> /\ Top.pc = "router" =>
                /\ ev'.kind = "call_next"
                /\ ev'.fr.fwd = BrowserChangeRoute(r)
                /\ ~ev'.fr.tried /\ ~ev'.fr.logged
                /\ UNCHANGED <<route, history, borrowed, failed>>
        /\ ev'.kind = "call_next" /\ ev'.fr.cb /\ ev'.fr.act.tag = "ChangeRoute" =>
              /\ route' = ev'.fr.act.route
              /\ ~ev'.fr.logged ]_vars

\* the BrowserChangeRoute(r) of the callback reaches the next stage while
\* the ChangeRoute(r) that caused it is still inside router.set_route
C16_Witness ==
    /\ Len(stack) >= 2
    /\ stack[Len(stack) - 1].pc = "router"
    /\ stack[Len(stack) - 1].cb
    /\ stack[Len(stack) - 1].act = ChangeRoute(route)
    /\ CalledNext(BrowserChangeRoute(route))
    /\ borrowed
    /\ ~failed

\* C17: for ChangeRoute and Back the next stage is called after the router
\* call has returned and the borrow this call took is released; a callback
\* the Router fires synchronously fires while the call that caused it has
\* not called the next stage yet.
C17_RouterBeforeNext ==
    /\ ev.kind = "call_next" /\ ev.fr.act.tag \in {"ChangeRoute", "Back"} =>
          /\ ~ev.fr.holds
          /\ borrowed <=> ev.fr.pre
          /\ ev.fr.n = 1
    /\ ev.kind = "notify" /\ stack # <<>> =>
          /\ Top.pc = "router" /\ Top.cb /\ Top.n = 0
          /\ Top.act.tag \in {"ChangeRoute", "Back"}
    /\ \A i \in 1..Len(stack) : stack[i].pc = "router" => stack[i].n = 0

C17_Witness ==
    /\ ev.kind = "call_next"
    /\ ev.fr.act.tag = "ChangeRoute"
    /\ ev.fr.cb
    /\ ev.fr.n = 1
    /\ ~borrowed
    /\ route = ev.fr.act.route

\* C18: RouteStore::change_route(x) dispatches exactly one action,
\* ChangeRoute of x converted into a Route, and changes nothing in the
\* Router, the RefCell or the calls in progress.
C18_ChangeRouteDispatch ==
    [][ ev'.kind = "dispatch" =>
          /\ ev'.inp \in RouteInputs
          /\ ev'.sent = <<[tag |-> "ChangeRoute",
                           route |-> IF ev'.inp > NRoutes THEN ev'.inp - NRoutes
                                                          ELSE ev'.inp]>>
          /\ ev'.arg = 0
          /\ UNCHANGED <<route, history, registered, borrowed, stack>> ]_vars

C18_Witness ==
    /\ ev.kind = "dispatch"
    /\ ev.inp > NRoutes
    /\ Len(ev.sent) = 1
    /\ ev.sent[1].route # route

====
